---------------------------- MODULE Spec2Model ----------------------------
(***************************************************************************)
(* A model of src/generateGmock.py: the identifier transformer             *)
(* (StringTransform), the signature reconstructor and method descriptor    *)
(* (MockGenerator._get_arguments_and_num_args, _get_result_type,           *)
(* MockMethod) and the interface aggregator (_get_mock_methods,            *)
(* generate_data).                                                         *)
(*                                                                         *)
(* Text is modelled as a sequence of atoms.  An identifier or a qualified  *)
(* name is a sequence of one-character strings, so that split, startswith  *)
(* and the comparison with "intf" work character by character.  A token    *)
(* stream is a sequence of tokens (strings), and the texts built from      *)
(* tokens are sequences whose atoms are tokens and the literals the code   *)
(* inserts between them.                                                   *)
(*                                                                         *)
(* The program has three independent parts, each with its own              *)
(* specification over the same variables: SpecIdent, SpecMethod, SpecTree. *)
(***************************************************************************)
EXTENDS Integers, Sequences, FiniteSets, TLC

VARIABLES
    \* ---- StringTransform
    obtained_string,   \* StringTransform.obtained_string
    st_pc,             \* "new" | "parts" | "view" | "round"
    parts_result,      \* result of self._string_parts
    view_kind,         \* which joined view was taken
    view_result,       \* result of _snake_case / _kebab_case / _space_separated
    round_result,      \* _string_parts of StringTransform(view)
    \* ---- one CXX_METHOD node, its MockMethod and its rendering
    decl,              \* what the parser gives for the node (tokens, spelling, ...)
    m_pc,              \* "node" | "built" | "rendered"
    mock_method,       \* result of building the MockMethod (lines 443-458)
    rendered,          \* result of MockMethod.to_string()
    \* ---- MockGenerator.generate_data over a declaration tree
    nodes,             \* the cursors below self.cursor: parent, kind, displayname, ...
    self_expr,         \* MockGenerator.expr, the scope restriction
    pending,           \* the calls of _get_mock_methods still to make, in call order
    mock_methods,      \* the dict generate_data passes down, in insertion order
    visited,           \* history: the nodes _get_mock_methods was called on, in order
    collected,         \* history: the CXX_METHOD nodes that added a MockMethod, in order
    t_pc,              \* "walk" | "done"
    outcome            \* what generate_data returns or raises

identVars == <<obtained_string, st_pc, parts_result, view_kind, view_result, round_result>>
methodVars == <<decl, m_pc, mock_method, rendered>>

treeVars == <<nodes, self_expr, pending, mock_methods, visited, collected, t_pc, outcome>>

vars == <<identVars, methodVars, treeVars>>

(***************************************************************************)
(* Generic helpers on sequences.                                           *)
(***************************************************************************)
Range(s) == {s[i] : i \in 1..Len(s)}

RECURSIVE Flatten(_)
Flatten(ss) == IF ss = <<>> THEN <<>> ELSE Head(ss) \o Flatten(Tail(ss))

RECURSIVE SeqsUpTo(_, _)
SeqsUpTo(S, n) ==
    IF n = 0 THEN {<<>>}
    ELSE LET shorter == SeqsUpTo(S, n - 1)
         IN  shorter \cup {Append(s, x) : s \in shorter, x \in S}

(***************************************************************************)
(* Results of calls that may raise.                                        *)
(***************************************************************************)
Ok(v) == [err |-> "none", val |-> v]
Raise(e) == [err |-> e, val |-> <<>>]
NoResult == [err |-> "not called", val |-> <<>>]

(***************************************************************************)
(* StringTransform                                                         *)
(***************************************************************************)
\* StringTransform.delimiters, in the dict's (insertion) order.
delimiters == <<"-", "_", " ">>
KEBAB_CASE == 1
SNAKE_CASE == 2
SPACE == 3

\* str.lower(), on the characters the model draws identifiers from.
LowerChar(c) == CASE c = "A" -> "a" [] c = "B" -> "b" [] OTHER -> c
Lower(s) == [i \in 1..Len(s) |-> LowerChar(s[i])]

\* str.split(delim) for a one-character delim: always at least one segment.
RECURSIVE Split(_, _)
Split(s, d) ==
    IF s = <<>> THEN << <<>> >>
    ELSE LET rest == Split(Tail(s), d)
         IN  IF Head(s) = d
             THEN << <<>> >> \o rest
             ELSE << <<Head(s)>> \o rest[1] >> \o Tail(rest)

\* delim.join(list)
RECURSIVE Join(_, _)
Join(list, d) ==
    IF list = <<>> THEN <<>>
    ELSE IF Len(list) = 1 THEN list[1]
    ELSE list[1] \o d \o Join(Tail(list), d)

\* `delim in self.obtained_string`
Contains(s, c) == c \in Range(s)

Intf == <<"i", "n", "t", "f">>

\* Mutant of SplitOnDelimiter: an identifier without a delimiter is one word.
SplitOnDelimiterSingleWord(s) ==
    LET found == {k \in 1..Len(delimiters) : Contains(s, delimiters[k])}
    IN  IF found = {} THEN << Lower(s) >>
        ELSE Split(Lower(s), delimiters[CHOOSE k \in found : \A j \in found : k <= j])

\* Lines 62-68: split on the first delimiter (in dict order) the string contains;
\* the empty list when it contains none.
SplitOnDelimiter(s) ==
    LET found == {k \in 1..Len(delimiters) : Contains(s, delimiters[k])}
    IN  IF found = {} THEN <<>>
        ELSE Split(Lower(s), delimiters[CHOOSE k \in found : \A j \in found : k <= j])

\* list.remove(x): drops the first element equal to x.
RECURSIVE ListRemove(_, _)
ListRemove(list, x) ==
    IF list = <<>> THEN <<>>
    ELSE IF Head(list) = x THEN Tail(list)
    ELSE <<Head(list)>> \o ListRemove(Tail(list), x)

\* Lines 78-80: `for elem in string_parts: if ...: string_parts.remove(elem)`.
\* The list iterator keeps an index into the list being mutated: idx is the
\* (1-based) position of the next element it yields.
RECURSIVE RemoveLoop(_, _)
RemoveLoop(list, idx) ==
    IF idx > Len(list) THEN list
    ELSE IF list[idx] = <<>> \/ list[idx] = Intf
         THEN RemoveLoop(ListRemove(list, list[idx]), idx + 1)
         ELSE RemoveLoop(list, idx + 1)

\* StringTransform._string_parts
string_parts(s) ==
    LET split == SplitOnDelimiter(s)
    IN  IF Len(split) = 0 THEN Raise("ValueError")
        ELSE Ok(RemoveLoop(split, 1))

\* Mutant of JoinView: the segments are concatenated without the delimiter.
JoinViewNoDelimiter(s, kind) ==
    LET p == string_parts(s)
    IN  IF p.err # "none" THEN p ELSE Ok(Flatten(p.val))

\* StringTransform._snake_case / _kebab_case / _space_separated:
\* self.delimiters[kind].join(self._string_parts); the property raises when
\* _string_parts does.
JoinView(s, kind) ==
    LET p == string_parts(s)
    IN  IF p.err # "none" THEN p ELSE Ok(Join(p.val, <<delimiters[kind]>>))

snake_case(s) == JoinView(s, SNAKE_CASE)
kebab_case(s) == JoinView(s, KEBAB_CASE)
space_separated(s) == JoinView(s, SPACE)

(***************************************************************************)
(* MockGenerator: the signature reconstructor.                             *)
(* Token positions are Python's (0-based): Tok(tokens, i) is tokens[i].    *)
(***************************************************************************)
Tok(tokens, i) == tokens[i + 1]

\* `tok[0] == ">" and tok[-1] == ">"`: among the tokens of C++ these are the
\* closing angle-bracket runs.
IsClosingRun(tok) == tok \in {">", ">>", ">>>"}

ArgsResult(n, text) == [err |-> "none", num_args |-> n, args |-> text]
ArgsIndexError == [err |-> "IndexError", num_args |-> 0, args |-> <<>>]

\* Lines 342-347.
NumArgs(args_with_types, commas) ==
    IF Len(args_with_types) = 0 THEN 0 ELSE commas + 1

\* Lines 315-320: is a space appended after tokens[i]?
SpaceAfter(cur, next) ==
    ~ \/ next \in {"::", ",", ")", "<", ">"}
      \/ cur \in {"::", "<"}
      \/ IsClosingRun(next)

\* Lines 327-330: the flag in_between_template_type after tokens[i].
NextInTemplate(cur, next, in_between) ==
    IF cur = "<" THEN TRUE
    ELSE IF IsClosingRun(next) THEN FALSE
    ELSE in_between

\* Lines 327-333: is tokens[i] counted as a separating comma?
CountsComma(cur, next, in_between) ==
    /\ cur # "<"
    /\ ~IsClosingRun(next)
    /\ cur = ","
    /\ in_between = FALSE

\* Lines 304-337: the while loop, from position i.  Reading tokens[i] or
\* tokens[i + 1] past the end of the list raises IndexError.
RECURSIVE ArgsWhile(_, _, _, _, _)
ArgsWhile(tokens, i, args, in_between, commas) ==
    IF i >= Len(tokens) THEN ArgsIndexError
    ELSE IF Tok(tokens, i) = ")" THEN ArgsResult(NumArgs(args, commas), args)
    ELSE IF i + 1 >= Len(tokens) THEN ArgsIndexError
    ELSE LET cur == Tok(tokens, i)
             next == Tok(tokens, i + 1)
         IN  ArgsWhile(tokens, i + 1,
                       args \o <<cur>> \o (IF SpaceAfter(cur, next) THEN <<" ">> ELSE <<>>),
                       NextInTemplate(cur, next, in_between),
                       commas + (IF CountsComma(cur, next, in_between) THEN 1 ELSE 0))

\* Lines 298-300: the position after the special case of the call operator.
SkipCallOperator(tokens, i) ==
    IF Tok(tokens, i - 1) = "operator" /\ Tok(tokens, i) = "("
    THEN IF i + 1 >= Len(tokens) THEN [err |-> "IndexError", i |-> i]
         ELSE IF Tok(tokens, i + 1) = ")" THEN [err |-> "none", i |-> i + 3]
         ELSE [err |-> "none", i |-> i]
    ELSE [err |-> "none", i |-> i]

\* Lines 293-340: the for loop over range(1, len(tokens)), from position i.
\* An assignment to i inside the body lasts for that iteration only.
RECURSIVE ArgsFor(_, _)
ArgsFor(tokens, i) ==
    IF i >= Len(tokens) THEN ArgsResult(NumArgs(<<>>, 0), <<>>)
    ELSE LET skip == SkipCallOperator(tokens, i)
         IN  IF skip.err # "none" THEN ArgsIndexError
             ELSE IF skip.i - 1 >= Len(tokens) THEN ArgsIndexError
             ELSE IF Tok(tokens, skip.i - 1) = "("
                  THEN ArgsWhile(tokens, skip.i, <<>>, FALSE, 0)
                  ELSE ArgsFor(tokens, i + 1)

\* MockGenerator._get_arguments_and_num_args
get_arguments_and_num_args(tokens) == ArgsFor(tokens, 1)

\* Lines 359-362: what one token before the stop token adds to result_type.
ResultTypeOf(token) ==
    (IF token \notin {"virtual", "inline", "volatile"} THEN <<token>> ELSE <<>>)
    \o (IF token \in {"const", "volatile"} THEN <<" ">> ELSE <<>>)

\* MockGenerator._get_result_type
RECURSIVE get_result_type(_, _)
get_result_type(tokens, name) ==
    IF tokens = <<>> THEN <<>>
    ELSE IF Head(tokens) \in {name, "operator"} THEN <<>>
    ELSE ResultTypeOf(Head(tokens)) \o get_result_type(Tail(tokens), name)

\* MockGenerator._is_template_class
is_template_class(expr) == Contains(expr, "<")

(***************************************************************************)
(* MockMethod                                                              *)
(***************************************************************************)
\* MockMethod.operators, as the list of its (key, value) items.
OperatorTable == <<
    <<"operator,", "comma_operator">>,
    <<"operator!", "logical_not_operator">>,
    <<"operator!=", "inequality_operator">>,
    <<"operator%", "modulus_operator">>,
    <<"operator%=", "modulus_assignment_operator">>,
    <<"operator&", "address_of_or_bitwise_and_operator">>,
    <<"operator&&", "logical_and_operator">>,
    <<"operator&=", "bitwise_and_assignment_operator">>,
    <<"operator()", "function_call_or_cast_operator">>,
    <<"operator*", "multiplication_or_dereference_operator">>,
    <<"operator*=", "multiplication_assignment_operator">>,
    <<"operator+", "addition_or_unary_plus_operator">>,
    <<"operator++", "increment1_operator">>,
    <<"operator+=", "addition_assignment_operator">>,
    <<"operator-", "subtraction_or_unary_negation_operator">>,
    <<"operator--", "decrement1_operator">>,
    <<"operator-=", "subtraction_assignment_operator">>,
    <<"operator->", "member_selection_operator">>,
    <<"operator->*", "pointer_to_member_selection_operator">>,
    <<"operator/", "division_operator">>,
    <<"operator/=", "division_assignment_operator">>,
    <<"operator<", "less_than_operator">>,
    <<"operator<<", "left_shift_operator">>,
    <<"operator<<=", "left_shift_assignment_operator">>,
    <<"operator<=", "less_than_or_equal_to_operator">>,
    <<"operator=", "assignment_operator">>,
    <<"operator==", "equality_operator">>,
    <<"operator>", "greater_than_operator">>,
    <<"operator>=", "greater_than_or_equal_to_operator">>,
    <<"operator>>", "right_shift_operator">>,
    <<"operator>>=", "right_shift_assignment_operator">>,
    <<"operator[]", "array_subscript_operator">>,
    <<"operator^", "exclusive_or_operator">>,
    <<"operator^=", "exclusive_or_assignment_operator">>,
    <<"operator|", "bitwise_inclusive_or_operator">>,
    <<"operator|=", "bitwise_inclusive_or_assignment_operator">>,
    <<"operator||", "logical_or_operator">>,
    <<"operator~", "complement_operator">>
>>

\* `name in self.operators`
InOperators(name) == \E k \in 1..Len(OperatorTable) : OperatorTable[k][1] = name

\* self.operators[name]
operators(name) ==
    OperatorTable[CHOOSE k \in 1..Len(OperatorTable) : OperatorTable[k][1] = name][2]

\* MockMethod.__init__ sets the fields from its arguments.
MockMethod(result_type, name, is_const, is_template, args_size, args, args_prefix) ==
    [result_type |-> result_type, name |-> name, is_const |-> is_const,
     is_template |-> is_template, args_size |-> args_size, args |-> args,
     args_prefix |-> args_prefix]

\* The default of MockMethod.__init__'s args_prefix.
DefaultArgsPrefix == <<"arg">>

\* A text is the concatenation of its atoms: the empty string adds nothing.
Text(atoms) == SelectSeq(atoms, LAMBDA a : a # "")

\* The characters of an atom that the scan of _named_args_with_types tells
\* apart; every other atom of an argument text holds none of `<>(),`.
ScanChars(a) ==
    CASE a = ">>" -> <<">", ">">>
      [] a = ">>>" -> <<">", ">", ">">>
      [] OTHER -> <<a>>

\* MockMethod._named_args
RECURSIVE NamedArgsFrom(_, _, _)
NamedArgsFrom(prefix, i, n) ==
    IF i >= n THEN <<>>
    ELSE (IF i # 0 THEN <<", ">> ELSE <<>>) \o prefix \o <<ToString(i)>>
         \o NamedArgsFrom(prefix, i + 1, n)

named_args(m) == NamedArgsFrom(m.args_prefix, 0, m.args_size)

\* Lines 210-218: the scan of self.args, character by character.
RECURSIVE NamedTypesScan(_, _, _, _)
NamedTypesScan(chars, prefix, in_type, i) ==
    IF chars = <<>> THEN <<" ">> \o prefix \o <<ToString(i)>>
    ELSE LET c == Head(chars)
             in_type2 == IF c \in {"<", "("} THEN TRUE
                         ELSE IF c \in {">", ")"} THEN FALSE
                         ELSE in_type
             named == ~in_type2 /\ c = ","
         IN  (IF named THEN <<" ">> \o prefix \o <<ToString(i)>> ELSE <<>>)
             \o <<c>>
             \o NamedTypesScan(Tail(chars), prefix, in_type2, IF named THEN i + 1 ELSE i)

\* MockMethod._named_args_with_types
named_args_with_types(m) ==
    IF m.args = <<>> THEN <<>>
    ELSE NamedTypesScan(Flatten([k \in 1..Len(m.args) |-> ScanChars(m.args[k])]),
                        m.args_prefix, FALSE, 0)

\* str.strip() of a text whose only whitespace is the atom " ".
RECURSIVE LStrip(_)
LStrip(s) == IF s # <<>> /\ Head(s) = " " THEN LStrip(Tail(s)) ELSE s

RECURSIVE RStrip(_)
RStrip(s) == IF s # <<>> /\ s[Len(s)] = " " THEN RStrip(SubSeq(s, 1, Len(s) - 1)) ELSE s

Strip(s) == RStrip(LStrip(s))

\* Mutant of ReturnWord: the wrapper returns whatever the result type is.
ReturnWordAlways(result_type) == "return"

\* Line 234: `self.result_type.strip() != "void" and "return" or ""`
ReturnWord(result_type) == IF Strip(result_type) # <<"void">> THEN "return" ELSE ""

\* Lines 225-238: the forwarding wrapper of an operator.
WrapperText(m, gap) ==
    Text(<<gap, "virtual ">> \o m.result_type \o <<" ", m.name, "(">> \o m.args
         \o <<") ", IF m.is_const THEN "const " ELSE "", "{ ", ReturnWord(m.result_type), " ">>
         \o <<operators(m.name), "(">> \o m.args \o <<")">>
         \o <<"; }\n">>)

\* Lines 240-251: the MOCK_ line.
MockLine(m, name, gap) ==
    Text(<<gap, "MOCK_", IF m.is_const THEN "CONST_" ELSE "", "METHOD",
           ToString(m.args_size), IF m.is_template THEN "_T" ELSE "", "(", name, ", ">>
         \o m.result_type \o <<"(">> \o m.args \o <<")", ");">>)

\* MockMethod.to_string
to_string(m, gap) ==
    IF InOperators(m.name)
    THEN WrapperText(m, gap) \o MockLine(m, operators(m.name), gap)
    ELSE MockLine(m, m.name, gap)

\* The default of to_string's gap.
DefaultGap == "    "

(***************************************************************************)
(* MockGenerator: the interface aggregator.                                *)
(***************************************************************************)
\* str.startswith
StartsWith(s, prefix) ==
    Len(prefix) <= Len(s) /\ SubSeq(s, 1, Len(prefix)) = prefix

Colons == <<":", ":">>

\* str.split(sep) for a separator of several characters.
RECURSIVE SplitSep(_, _)
SplitSep(s, sep) ==
    IF s = <<>> THEN << <<>> >>
    ELSE IF StartsWith(s, sep)
         THEN << <<>> >> \o SplitSep(SubSeq(s, Len(sep) + 1, Len(s)), sep)
         ELSE LET rest == SplitSep(Tail(s), sep)
              IN  << <<Head(s)>> \o rest[1] >> \o Tail(rest)

Last(list) == list[Len(list)]
ButLast(list) == SubSeq(list, 1, Len(list) - 1)

\* Python's `x and y or z` is z whenever y is falsy, as the empty string is.
AndOr(x, y, z) == IF x /\ y # <<>> THEN y ELSE z

\* Line 465: `expr == "" and name or expr + (name == "" and "" or "::") + name`
ExtendExpr(expr, name) ==
    AndOr(expr = <<>>, name, expr \o AndOr(name = <<>>, <<>>, Colons) \o name)

\* Mutant of InScope: every container is traversed.
InScopeAlways(expr, restriction) == TRUE

\* Line 466: `expr.startswith(self.expr)`
InScope(expr, restriction) == StartsWith(expr, restriction)

\* The dict mock_methods is the list of its items in insertion order; the
\* value list [file, MockMethod, ...] is kept as file and methods.
HasKey(dict, key) == \E k \in 1..Len(dict) : dict[k].key = key

\* Line 448: `mock_methods.setdefault(expr, [file]).append(m)`
SetDefaultAppend(dict, key, file, m) ==
    IF HasKey(dict, key)
    THEN [k \in 1..Len(dict) |->
             IF dict[k].key = key
             THEN [dict[k] EXCEPT !.methods = Append(@, m)]
             ELSE dict[k]]
    ELSE Append(dict, [key |-> key, file |-> file, methods |-> <<m>>])

\* MockGenerator._get_interface: the last `::` segment without its `<...>`.
RECURSIVE DropTemplate(_, _)
DropTemplate(chars, ignore) ==
    IF chars = <<>> THEN <<>>
    ELSE LET c == Head(chars)
             ignore2 == (c = "<") \/ ignore
         IN  (IF ~ignore2 THEN <<c>> ELSE <<>>)
             \o DropTemplate(Tail(chars), IF c = ">" THEN FALSE ELSE ignore2)

get_interface(expr) == DropTemplate(Last(SplitSep(expr, Colons)), FALSE)

\* Lines 369-381 of _pretty_template: the type names between `<` and `>`.
RECURSIVE TypeNames(_, _, _)
TypeNames(chars, first, typename) ==
    IF chars = <<>> THEN <<>>
    ELSE LET c == Head(chars)
         IN  IF c = "<" THEN TypeNames(Tail(chars), TRUE, typename)
             ELSE IF c = "," \/ c = ">"
                  THEN <<typename>> \o TypeNames(Tail(chars), first, <<>>)
             ELSE IF c = " " THEN TypeNames(Tail(chars), first, typename)
             ELSE IF first THEN TypeNames(Tail(chars), first, Append(typename, c))
             ELSE TypeNames(Tail(chars), first, typename)

\* Lines 386-389: `typename T1, typename T2`
RECURSIVE TypenameList(_, _)
TypenameList(typenames, i) ==
    IF typenames = <<>> THEN <<>>
    ELSE (IF i # 0 THEN <<", ">> ELSE <<>>) \o <<"typename ">> \o Head(typenames)
         \o TypenameList(Tail(typenames), i + 1)

\* MockGenerator._pretty_template
pretty_template(expr) ==
    LET typenames == TypeNames(Last(SplitSep(expr, Colons)), FALSE, <<>>)
    IN  IF Len(typenames) > 0
        THEN <<"template<">> \o TypenameList(typenames, 0) \o <<">", "\n">>
        ELSE <<>>

\* MockGenerator._pretty_mock_methods
RECURSIVE PrettyFrom(_, _)
PrettyFrom(methods, i) ==
    IF methods = <<>> THEN <<>>
    ELSE (IF i # 0 THEN <<"\n">> ELSE <<>>) \o to_string(Head(methods), DefaultGap)
         \o PrettyFrom(Tail(methods), i + 1)

pretty_mock_methods(methods) == PrettyFrom(methods, 0)

\* MockGenerator._pretty_namespaces_begin / _pretty_namespaces_end
RECURSIVE NamespaceLines(_, _, _, _)
NamespaceLines(namespaces, i, before, after) ==
    IF namespaces = <<>> THEN <<>>
    ELSE (IF i # 0 THEN <<"\n">> ELSE <<>>) \o before \o Head(namespaces) \o after
         \o NamespaceLines(Tail(namespaces), i + 1, before, after)

pretty_namespaces_begin(expr) ==
    NamespaceLines(ButLast(SplitSep(expr, Colons)), 0, <<"namespace ">>, <<" {">>)

pretty_namespaces_end(expr) ==
    NamespaceLines(ButLast(SplitSep(expr, Colons)), 0, <<"} // namespace ">>, <<>>)

\* str.upper(), on the characters the model draws names from.
UpperChar(c) ==
    CASE c = "a" -> "A" [] c = "b" -> "B" [] c = "i" -> "I" [] c = "n" -> "N"
      [] c = "t" -> "T" [] c = "f" -> "F" [] OTHER -> c
Upper(s) == [i \in 1..Len(s) |-> UpperChar(s[i])]

\* StringTransform.gmock_class_name etc., for an identifier whose
\* _string_parts does not raise.
gmock_h_file_name(s) == kebab_case(s).val \o <<delimiters[KEBAB_CASE], "gmock.h">>
gmock_cpp_file_name(s) == kebab_case(s).val \o <<delimiters[KEBAB_CASE], "gmock.cpp">>
gmock_class_name(s) == Upper(snake_case(s).val) \o <<delimiters[SNAKE_CASE], "GMOCK">>
header_guard_name(s) ==
    gmock_class_name(s) \o <<delimiters[SNAKE_CASE], "H", delimiters[SNAKE_CASE]>>

\* Lines 505-521: _get_templated_class_name
get_templated_class_name(className, templateInterfaceName) ==
    IF ~Contains(templateInterfaceName, "<") THEN className
    ELSE className \o <<"<">> \o Last(Split(templateInterfaceName, "<"))

\* os.path.basename
basename(path) == Last(Split(path, "/"))

\* Lines 527-541: the replacement mapping.
Replacements(expr, entry, path) ==
    LET interfaceName == get_interface(expr)
    IN  [mock_file_hpp |-> gmock_h_file_name(interfaceName),
         mock_file_cpp |-> gmock_cpp_file_name(interfaceName),
         generated_dir |-> path,
         guard |-> header_guard_name(interfaceName),
         file |-> basename(entry.file),
         namespaces_begin |-> pretty_namespaces_begin(expr),
         interface |-> Upper(snake_case(interfaceName).val),
         class_name |-> gmock_class_name(interfaceName),
         template_class_name |->
             get_templated_class_name(gmock_class_name(interfaceName),
                                      Last(SplitSep(expr, Colons))),
         template_interface |-> Last(SplitSep(expr, Colons)),
         template |-> pretty_template(expr),
         mock_methods |-> pretty_mock_methods(entry.methods),
         namespaces_end |-> pretty_namespaces_end(expr)]

\* Mutant of AssembleData: an empty dict yields an empty mapping.
AssembleDataNoCheck(dict, path) ==
    IF Len(dict) = 0 THEN Ok(<<>>)
    ELSE IF string_parts(get_interface(dict[1].key)).err # "none" THEN Raise("ValueError")
    ELSE Ok(Replacements(dict[1].key, dict[1], path))

\* Lines 495-543 of generate_data: RuntimeError for an empty dict; else the
\* mapping for the first key.  The first naming view read (line 524) raises
\* the ValueError of _string_parts.
AssembleData(dict, path) ==
    IF Len(dict) = 0 THEN Raise("RuntimeError")
    ELSE IF string_parts(get_interface(dict[1].key)).err # "none" THEN Raise("ValueError")
    ELSE Ok(Replacements(dict[1].key, dict[1], path))

(***************************************************************************)
(* Inputs of SpecIdent: identifiers made of at most MaxPieces pieces, each *)
(* a word or a delimiter.                                                  *)
(***************************************************************************)
MaxPieces == 4

IdentPieces == { <<"a">>, <<"B">>, Intf, <<"-">>, <<"_">>, <<" ">> }

Identifiers == {Flatten(ps) : ps \in SeqsUpTo(IdentPieces, MaxPieces)}

\* The part of the state a specification does not use stays as it is here.
IdentIdle ==
    /\ obtained_string = <<>>
    /\ st_pc = "idle"
    /\ parts_result = NoResult
    /\ view_kind = 0
    /\ view_result = NoResult
    /\ round_result = NoResult

MethodIdle ==
    /\ decl = <<>>
    /\ m_pc = "idle"
    /\ mock_method = NoResult
    /\ rendered = NoResult

TreeIdle ==
    /\ nodes = <<>>
    /\ self_expr = <<>>
    /\ pending = <<>>
    /\ mock_methods = <<>>
    /\ visited = <<>>
    /\ collected = <<>>
    /\ t_pc = "idle"
    /\ outcome = NoResult

IdentInit ==
    /\ obtained_string \in Identifiers
    /\ st_pc = "new"
    /\ parts_result = NoResult
    /\ view_kind = 0
    /\ view_result = NoResult
    /\ round_result = NoResult
    /\ MethodIdle
    /\ TreeIdle

\* A caller reads self._string_parts.
StringPartsCall ==
    /\ st_pc = "new"
    /\ parts_result' = string_parts(obtained_string)
    /\ st_pc' = "parts"
    /\ UNCHANGED <<obtained_string, view_kind, view_result, round_result, methodVars, treeVars>>

\* A caller reads one of the three joined views.
ViewCall ==
    /\ st_pc = "parts"
    /\ \E kind \in {KEBAB_CASE, SNAKE_CASE, SPACE} :
          /\ view_kind' = kind
          /\ view_result' = CASE kind = KEBAB_CASE -> kebab_case(obtained_string)
                               [] kind = SNAKE_CASE -> snake_case(obtained_string)
                               [] kind = SPACE -> space_separated(obtained_string)
    /\ st_pc' = "view"
    /\ UNCHANGED <<obtained_string, parts_result, round_result, methodVars, treeVars>>

\* A caller builds StringTransform(view) and reads its _string_parts.
RoundTripCall ==
    /\ st_pc = "view"
    /\ view_result.err = "none"
    /\ round_result' = string_parts(view_result.val)
    /\ st_pc' = "round"
    /\ UNCHANGED <<obtained_string, parts_result, view_kind, view_result, methodVars, treeVars>>

IdentNext == StringPartsCall \/ ViewCall \/ RoundTripCall

SpecIdent == IdentInit /\ [][IdentNext]_vars

(***************************************************************************)
(* Inputs of SpecMethod: what libclang gives for one CXX_METHOD node.  The *)
(* token stream is `<result type> <name> ( <parameters> ) [const]`.        *)
(***************************************************************************)
MaxParams == 2
MaxQuals == 2

\* A template type over the types of S, with one or two arguments.
TemplateOver(S) ==
    {<<"map", "<">> \o a \o <<">">> : a \in S}
        \cup {<<"map", "<">> \o a \o <<",">> \o b \o <<">">> : a \in S, b \in S}

PlainTypes == {<<"int">>}
NestedTypes == PlainTypes \cup TemplateOver(PlainTypes \cup TemplateOver(PlainTypes))

\* A qualified name, a function-pointer type and a parameter with a default
\* argument that is a call.
ParamTypes ==
    NestedTypes \cup {<<"std", "::", "string">>,
                      <<"int", "(", "*", ")", "(", "int", ")">>,
                      <<"int", "=", "f", "(", ")">>}

ParamLists == {Join(ps, <<",">>) : ps \in SeqsUpTo(ParamTypes, MaxParams)}

\* `> >` written without a space is one token `>>`.
RECURSIVE MergeClosers(_)
MergeClosers(tokens) ==
    IF Len(tokens) < 2 THEN tokens
    ELSE IF tokens[1] = ">" /\ tokens[2] = ">"
         THEN <<">>">> \o MergeClosers(Tail(Tail(tokens)))
         ELSE <<Head(tokens)>> \o MergeClosers(Tail(tokens))

Qualifiers == {"virtual", "inline", "const", "volatile"}

QualifierLists ==
    {q \in SeqsUpTo(Qualifiers, MaxQuals) : \A i, j \in 1..Len(q) : i # j => q[i] # q[j]}

ReturnTypes == {q \o b : q \in QualifierLists, b \in {<<"void">>, <<"int", "*">>}}

\* spelling |-> the tokens of the name
MethodNames ==
    { [spelling |-> "bar", tokens |-> <<"bar">>],
      [spelling |-> "operator==", tokens |-> <<"operator", "==">>],
      [spelling |-> "operator()", tokens |-> <<"operator", "(", ")">>] }

\* The parameter types as node.displayname spells them.
DisplayTypes == { <<>>, <<"int">> }

\* The qualified name of the enclosing class.
ClassExprs == { <<"a">>, <<"a", "<", "T", ">">> }

Decl(ret, name, params, is_const, display, expr) ==
    [tokens |-> ret \o name.tokens \o <<"(">> \o params \o <<")">>
                \o (IF is_const THEN <<"const">> ELSE <<>>),
     params |-> params,
     spelling |-> name.spelling,
     displayname |-> <<name.spelling, "(">> \o display \o <<")">>,
     is_const |-> is_const,
     expr |-> expr]

\* Declarations that vary the parameter list, and declarations that vary
\* the result type and the modifiers.
Decls ==
    {Decl(<<"virtual", "void">>, n, p, FALSE, <<>>, <<"a">>) :
        n \in MethodNames,
        p \in ParamLists \cup {MergeClosers(q) : q \in ParamLists}}
    \cup
    {Decl(r, n, p, c, d, e) :
        r \in ReturnTypes, n \in MethodNames, p \in {<<>>, <<"int">>},
        c \in BOOLEAN, d \in DisplayTypes, e \in ClassExprs}

MethodInit ==
    /\ decl \in Decls
    /\ m_pc = "node"
    /\ mock_method = NoResult
    /\ rendered = NoResult
    /\ IdentIdle
    /\ TreeIdle

\* name[len(node.spelling) + 1 : -1]: the spelling is one atom of the display
\* name, so the slice drops it, the "(" after it and the last atom.
ArgsPrefix(displayname) == SubSeq(displayname, 3, Len(displayname) - 1)

\* Lines 445-457: the MockMethod of a CXX_METHOD node met under the qualified
\* name expr.  An IndexError of _get_arguments_and_num_args propagates.
MockMethodOf(d, expr) ==
    LET r == get_arguments_and_num_args(d.tokens)
    IN  IF r.err # "none" THEN Raise(r.err)
        ELSE Ok(MockMethod(get_result_type(d.tokens, d.spelling),
                           d.spelling,
                           d.is_const,
                           is_template_class(expr),
                           r.num_args,
                           r.args,
                           ArgsPrefix(d.displayname)))

\* Lines 443-458: _get_mock_methods builds the MockMethod of a CXX_METHOD node.
BuildMockMethod ==
    /\ m_pc = "node"
    /\ mock_method' = MockMethodOf(decl, decl.expr)
    /\ m_pc' = "built"
    /\ UNCHANGED <<decl, rendered, identVars, treeVars>>

\* Line 399: _pretty_mock_methods renders the MockMethod.
ToStringCall ==
    /\ m_pc = "built"
    /\ mock_method.err = "none"
    /\ rendered' = Ok(to_string(mock_method.val, DefaultGap))
    /\ m_pc' = "rendered"
    /\ UNCHANGED <<decl, mock_method, identVars, treeVars>>

MethodNext == BuildMockMethod \/ ToStringCall

SpecMethod == MethodInit /\ [][MethodNext]_vars

(***************************************************************************)
(* Claims about the signature reconstructor and MockMethod (checked under  *)
(* SpecMethod).                                                            *)
(***************************************************************************)
Count(s, x) == Cardinality({i \in 1..Len(s) : s[i] = x})

\* The first position of x in s, or 0.
IndexOf(s, x) ==
    IF x \in Range(s) THEN CHOOSE i \in 1..Len(s) : s[i] = x /\ \A j \in 1..(i - 1) : s[j] # x
    ELSE 0

ContainsSeq(s, sub) ==
    \E i \in 0..(Len(s) - Len(sub)) : SubSeq(s, i + 1, i + Len(sub)) = sub

\* The nesting depth of `<...>` before position i of a parameter list.
RECURSIVE AngleDepth(_, _)
AngleDepth(params, i) ==
    IF i <= 1 THEN 0
    ELSE AngleDepth(params, i - 1)
         + (CASE params[i - 1] = "<" -> 1
              [] params[i - 1] = ">" -> -1
              [] params[i - 1] = ">>" -> -2
              [] OTHER -> 0)

TopLevelCommas(params) ==
    Cardinality({i \in 1..Len(params) : params[i] = "," /\ AngleDepth(params, i) = 0})

HasParens(params) == "(" \in Range(params) \/ ")" \in Range(params)

\* C1: for a balanced parameter list (here: one without nested parentheses,
\* which are C5's subject) the argument count is the number of commas outside
\* every `<...>` pair plus one, and 0 with empty text for an empty list.
C1_CountIsTopLevelCommasPlusOne ==
    (m_pc # "node" /\ ~HasParens(decl.params)) =>
        /\ mock_method.err = "none"
        /\ mock_method.val.args_size =
              (IF decl.params = <<>> THEN 0 ELSE TopLevelCommas(decl.params) + 1)
        /\ decl.params = <<>> => mock_method.val.args = <<>>

\* The tokens of an argument text: its atoms but the inserted spaces.
TokensOf(text) == SelectSeq(text, LAMBDA a : a # " ")

\* C5: the argument text covers every token between the opening `(` of the
\* parameter list and the `)` that matches it, nested parentheses included.
C5_ArgsCoverWholeList ==
    m_pc # "node" =>
        /\ mock_method.err = "none"
        /\ TokensOf(mock_method.val.args) = decl.params

\* The tokens before the first token equal to the spelling or to `operator`.
RECURSIVE BeforeStop(_, _)
BeforeStop(tokens, name) ==
    IF tokens = <<>> \/ Head(tokens) \in {name, "operator"} THEN <<>>
    ELSE <<Head(tokens)>> \o BeforeStop(Tail(tokens), name)

\* What C10 says a token adds: nothing when it is dropped, and itself, with
\* a space after `const`/`volatile`, when it is kept.
KeptText(token) ==
    IF token \in {"virtual", "inline", "volatile"} THEN <<>>
    ELSE IF token \in {"const", "volatile"} THEN <<token, " ">>
    ELSE <<token>>

\* C10: the result type is the concatenation of the tokens before the stop
\* token without `virtual`, `inline`, `volatile`, with a space only after a
\* kept `const`/`volatile`; a dropped qualifier adds no character.
C10_ResultTypeVerbatim ==
    (m_pc # "node" /\ mock_method.err = "none") =>
        LET before == BeforeStop(decl.tokens, decl.spelling)
        IN  mock_method.val.result_type
                = Flatten([k \in 1..Len(before) |-> KeptText(before[k])])

\* C6: to_string emits the forwarding wrapper (operator spelling and
\* signature, body calling the descriptive name) and then one MOCK_ line
\* under the descriptive name when the name is an operator, and one MOCK_
\* line and no wrapper otherwise; the wrapper holds `return` iff the trimmed
\* result type is not `void`; the MOCK_ line carries CONST_ iff is_const,
\* _T iff is_template, and the argument count.
C6_ToString ==
    m_pc = "rendered" =>
        LET m == mock_method.val
            r == rendered.val
            k == IndexOf(r, "MOCK_")
            wrapper == SubSeq(r, 1, k - 1)
            line == SubSeq(r, k, Len(r))
            mocked == IF InOperators(m.name) THEN operators(m.name) ELSE m.name
        IN  /\ Count(r, "MOCK_") = 1
            /\ Count(r, "virtual ") = (IF InOperators(m.name) THEN 1 ELSE 0)
            /\ InOperators(m.name) =>
                  /\ ContainsSeq(wrapper, <<"virtual ">> \o m.result_type
                                          \o <<" ", m.name, "(">> \o m.args \o <<") ">>)
                  /\ ContainsSeq(wrapper, <<operators(m.name), "(">> \o m.args \o <<")">>)
                  /\ ("return" \in Range(wrapper)) <=> (Strip(m.result_type) # <<"void">>)
            /\ ~InOperators(m.name) => (wrapper = <<DefaultGap>> /\ "return" \notin Range(r))
            /\ ("CONST_" \in Range(line)) <=> m.is_const
            /\ ("_T" \in Range(line)) <=> m.is_template
            /\ ContainsSeq(line, <<"METHOD", ToString(m.args_size)>>)
            /\ ContainsSeq(line, <<"(", mocked, ", ">> \o m.result_type
                                 \o <<"(">> \o m.args \o <<")">>)
            /\ InOperators(m.name) => m.name \notin Range(line)

C6_VoidOperatorRendered ==
    /\ m_pc = "rendered"
    /\ InOperators(mock_method.val.name)
    /\ mock_method.val.result_type # <<"void">>
    /\ Strip(mock_method.val.result_type) = <<"void">>
    /\ mock_method.val.is_const
    /\ mock_method.val.is_template
    /\ mock_method.val.args_size = 1
    /\ "return" \notin Range(rendered.val)

\* C7: the rendered text names the parameters <prefix><index>, one after
\* each argument's type in order.
C7_ParametersNamed ==
    (m_pc = "rendered" /\ mock_method.val.args_size >= 1) =>
        ContainsSeq(rendered.val, named_args_with_types(mock_method.val))

\* C11: for the call operator, `operator ( ) ( P )`, the empty `( )` of the
\* name is skipped: the argument text holds exactly the tokens of P, up to
\* the `)` that closes P, and the count is that of P (0 and empty text when
\* P is empty).
C11_CallOperatorMarkerSkipped ==
    (m_pc # "node" /\ decl.spelling = "operator()") =>
        /\ mock_method.err = "none"
        /\ TokensOf(mock_method.val.args) = decl.params
        /\ mock_method.val.args_size =
              (IF decl.params = <<>> THEN 0 ELSE TopLevelCommas(decl.params) + 1)
        /\ decl.params = <<>> => mock_method.val.args = <<>>

\* The part of C11 that is about the marker alone: the scan starts at the
\* first token of P, and with P free of nested parentheses and of nested
\* templates the text and the count are P's.
C11_MarkerAloneSkipped ==
    (m_pc # "node" /\ decl.spelling = "operator()") =>
        /\ mock_method.err = "none"
        /\ decl.params = <<>> =>
              (mock_method.val.args = <<>> /\ mock_method.val.args_size = 0)
        /\ decl.params # <<>> =>
              /\ mock_method.val.args # <<>>
              /\ Head(mock_method.val.args) = Head(decl.params)
        /\ (~HasParens(decl.params) /\ \A i \in 1..(Len(decl.params) + 1) :
                                            AngleDepth(decl.params, i) <= 1) =>
              /\ TokensOf(mock_method.val.args) = decl.params
              /\ mock_method.val.args_size =
                    (IF decl.params = <<>> THEN 0 ELSE TopLevelCommas(decl.params) + 1)

(***************************************************************************)
(* Inputs of SpecTree: the declaration tree below the translation unit     *)
(* (node 0) and the scope restriction.  Node i of `nodes` has a parent     *)
(* among 0..i-1; the children of a node are in increasing order, and the   *)
(* nodes are numbered level by level, so every ordered tree of at most     *)
(* MaxNodes nodes appears once.                                            *)
(***************************************************************************)
MaxNodes == 3

ContainerKinds == {"CLASS_TEMPLATE", "STRUCT_DECL", "CLASS_DECL", "NAMESPACE"}

\* The method every CXX_METHOD node of the tree declares.
TreeDecl ==
    Decl(<<"virtual", "bool">>, [spelling |-> "operator==", tokens |-> <<"operator", "==">>],
         <<"int">>, TRUE, <<"int">>, <<>>)

\* node.kind and node.displayname.
NodeChoices ==
    { [kind |-> "CXX_METHOD", name |-> TreeDecl.displayname],
      [kind |-> "FIELD_DECL", name |-> <<"a">>],
      [kind |-> "NAMESPACE", name |-> <<"a">>],
      [kind |-> "STRUCT_DECL", name |-> <<>>],
      [kind |-> "CLASS_DECL", name |-> <<"a", "_", "b">>],
      [kind |-> "CLASS_TEMPLATE", name |-> <<"a", "b", "<", "T", ">">>] }

RECURSIVE TreesOfSize(_)
TreesOfSize(n) ==
    IF n = 0 THEN {<<>>}
    ELSE UNION {
             {Append(t, [parent |-> p, kind |-> c.kind, name |-> c.name]) :
                  p \in (IF n = 1 THEN {0} ELSE t[n - 1].parent..(n - 1)),
                  c \in NodeChoices} :
             t \in TreesOfSize(n - 1)}

Trees == UNION {TreesOfSize(n) : n \in 0..MaxNodes}

Restrictions == { <<>>, <<"a">>, <<"a", ":", ":", "a", "_", "b">> }

\* node.location.file.name and MockGenerator.path (the default of --dir).
SourceFile == <<"src", "/", "a_b.h">>
GeneratedDir == <<".">>

KindOf(n) == IF n = 0 THEN "TRANSLATION_UNIT" ELSE nodes[n].kind

\* node.get_children(), in order.
RECURSIVE ChildrenFrom(_, _)
ChildrenFrom(n, i) ==
    IF i > Len(nodes) THEN <<>>
    ELSE (IF nodes[i].parent = n THEN <<i>> ELSE <<>>) \o ChildrenFrom(n, i + 1)

get_children(n) == ChildrenFrom(n, 1)

\* The calls `self._get_mock_methods(c, mock_methods, expr)` for the children.
CallsFor(n, expr) ==
    LET cs == get_children(n) IN [k \in 1..Len(cs) |-> [node |-> cs[k], expr |-> expr]]

\* generate_data, line 493: the first call is on self.cursor with expr "".
TreeInit ==
    /\ nodes \in Trees
    /\ self_expr \in Restrictions
    /\ pending = << [node |-> 0, expr |-> <<>>] >>
    /\ mock_methods = <<>>
    /\ visited = <<>>
    /\ collected = <<>>
    /\ t_pc = "walk"
    /\ outcome = NoResult
    /\ IdentIdle
    /\ MethodIdle

\* Lines 443-458: the call on a CXX_METHOD node adds its MockMethod under
\* expr and returns.  An exception ends generate_data.
VisitMethod ==
    /\ t_pc = "walk"
    /\ pending # <<>>
    /\ LET n == Head(pending).node
           expr == Head(pending).expr
       IN  /\ KindOf(n) = "CXX_METHOD"
           /\ LET m == MockMethodOf([TreeDecl EXCEPT !.displayname = nodes[n].name], expr)
              IN  IF m.err # "none"
                  THEN /\ outcome' = Raise(m.err)
                       /\ t_pc' = "done"
                       /\ pending' = <<>>
                       /\ UNCHANGED <<mock_methods, collected>>
                  ELSE /\ mock_methods' = SetDefaultAppend(mock_methods, expr, SourceFile, m.val)
                       /\ collected' = Append(collected, n)
                       /\ pending' = Tail(pending)
                       /\ UNCHANGED <<outcome, t_pc>>
           /\ visited' = Append(visited, n)
    /\ UNCHANGED <<nodes, self_expr, identVars, methodVars>>

\* Lines 459-470: the call on a container extends expr and calls itself on
\* the children when the extended expr starts with self.expr.
VisitContainer ==
    /\ t_pc = "walk"
    /\ pending # <<>>
    /\ LET n == Head(pending).node
           expr == ExtendExpr(Head(pending).expr, nodes[Head(pending).node].name)
       IN  /\ KindOf(n) \in ContainerKinds
           /\ pending' = (IF InScope(expr, self_expr) THEN CallsFor(n, expr) ELSE <<>>)
                         \o Tail(pending)
           /\ visited' = Append(visited, n)
    /\ UNCHANGED <<nodes, self_expr, mock_methods, collected, t_pc, outcome,
                   identVars, methodVars>>

\* Lines 471-472: the call on any other node calls itself on the children.
VisitOther ==
    /\ t_pc = "walk"
    /\ pending # <<>>
    /\ LET n == Head(pending).node
       IN  /\ KindOf(n) \notin ContainerKinds \cup {"CXX_METHOD"}
           /\ pending' = CallsFor(n, Head(pending).expr) \o Tail(pending)
           /\ visited' = Append(visited, n)
    /\ UNCHANGED <<nodes, self_expr, mock_methods, collected, t_pc, outcome,
                   identVars, methodVars>>

\* Lines 495-543: the traversal has returned.
Assemble ==
    /\ t_pc = "walk"
    /\ pending = <<>>
    /\ outcome' = AssembleData(mock_methods, GeneratedDir)
    /\ t_pc' = "done"
    /\ UNCHANGED <<nodes, self_expr, pending, mock_methods, visited, collected,
                   identVars, methodVars>>

TreeNext == VisitMethod \/ VisitContainer \/ VisitOther \/ Assemble

SpecTree == TreeInit /\ [][TreeNext]_vars

(***************************************************************************)
(* Claims about the interface aggregator (checked under SpecTree).         *)
(***************************************************************************)
ParentOf(n) == nodes[n].parent

RECURSIVE ProperAncestors(_)
ProperAncestors(n) ==
    IF n = 0 THEN {} ELSE {ParentOf(n)} \cup ProperAncestors(ParentOf(n))

IsContainer(n) == n # 0 /\ nodes[n].kind \in ContainerKinds

\* The extended qualified name of a node, from the tree alone: expr as line
\* 465 extends it along the path from the root.
RECURSIVE QualifiedName(_)
QualifiedName(n) ==
    IF n = 0 THEN <<>>
    ELSE IF IsContainer(n) THEN ExtendExpr(QualifiedName(ParentOf(n)), nodes[n].name)
    ELSE QualifiedName(ParentOf(n))

\* The nodes reached so far: called on, or added to mock_methods.
Reached == Range(visited) \cup Range(collected)

\* C2 as stated: a container's children are traversed only if its extended
\* qualified name is a prefix of (or equal to) the restriction expression;
\* nothing beneath another container is visited or collected.
C2_TraversedOnlyIfNamePrefixOfRestriction ==
    \A n \in Reached : \A c \in ProperAncestors(n) :
        IsContainer(c) => StartsWith(self_expr, QualifiedName(c))

\* C2 as amended: a container's children are traversed only if the
\* restriction expression is a prefix of (or equal to) its extended
\* qualified name; a container whose qualified name does not start with the
\* restriction is never traversed into and no method beneath it is added to
\* mock_methods.
C2_TraversedOnlyIfNameStartsWithRestriction ==
    \A n \in Reached : \A c \in ProperAncestors(n) :
        IsContainer(c) => StartsWith(QualifiedName(c), self_expr)

C2_MethodBeneathPrunedContainer ==
    /\ t_pc = "done"
    /\ self_expr # <<>>
    /\ \E c \in 1..Len(nodes), m \in 1..Len(nodes) :
           /\ IsContainer(c)
           /\ c \in Range(visited)
           /\ ~StartsWith(QualifiedName(c), self_expr)
           /\ ParentOf(m) = c
           /\ nodes[m].kind = "CXX_METHOD"
           /\ m \notin Reached

\* C9: when the traversal completes with nothing collected, generate_data
\* raises RuntimeError and produces no mapping; a mapping is produced only
\* with something collected.
C9_NoInterfaceRaises ==
    /\ (t_pc = "done" /\ outcome.err # "IndexError" /\ collected = <<>>)
           => (outcome = Raise("RuntimeError") /\ mock_methods = <<>>)
    /\ t_pc # "done" => outcome = NoResult
    /\ outcome.err = "none" => (collected # <<>> /\ mock_methods # <<>>)

C9_AllPrunedRaises ==
    /\ t_pc = "done"
    /\ outcome.err = "RuntimeError"
    /\ self_expr # <<>>
    /\ \E m \in 1..Len(nodes) : nodes[m].kind = "CXX_METHOD" /\ m \notin Range(visited)

\* A container is pruned when its extended qualified name does not start
\* with the restriction; the traversal goes below every node but a pruned
\* container and a method.
Pruned(n) == IsContainer(n) /\ ~StartsWith(QualifiedName(n), self_expr)

Descends(n) == n = 0 \/ (nodes[n].kind # "CXX_METHOD" /\ ~Pruned(n))

\* The depth-first pre-order of the subtrees of cs[i], cs[i + 1], ..., cut
\* below the nodes the traversal does not go below.
RECURSIVE PreOrderFrom(_, _)
PreOrderFrom(cs, i) ==
    IF i > Len(cs) THEN <<>>
    ELSE <<cs[i]>>
         \o (IF Descends(cs[i]) THEN PreOrderFrom(get_children(cs[i]), 1) ELSE <<>>)
         \o PreOrderFrom(cs, i + 1)

PreOrder == PreOrderFrom(<<0>>, 1)

IsMethod(n) == n # 0 /\ nodes[n].kind = "CXX_METHOD"

\* The non-empty names of the containers on the path from the root to n.
RECURSIVE ContainerNames(_)
ContainerNames(n) ==
    IF n = 0 THEN <<>>
    ELSE ContainerNames(ParentOf(n))
         \o (IF IsContainer(n) /\ nodes[n].name # <<>> THEN <<nodes[n].name>> ELSE <<>>)

\* The `::`-join of the non-empty names of the container ancestors.
JoinedNames(n) == Join(ContainerNames(n), Colons)

\* The Method Descriptor of method node n stored under key.
DescriptorOf(n, key) ==
    MockMethod(get_result_type(TreeDecl.tokens, TreeDecl.spelling),
               TreeDecl.spelling, TreeDecl.is_const, "<" \in Range(key),
               1, <<"int">>, ArgsPrefix(nodes[n].name))

\* After the walk: the calls were made on the nodes of PreOrder, once each
\* and in that order; each method node among them added one descriptor; the
\* keys of mock_methods are the keys KeyOf gives the collected methods, and
\* the descriptors under a key are those of its methods in pre-order.
WalkedWithKeys(KeyOf(_)) ==
    (t_pc = "done" /\ outcome.err # "IndexError") =>
        LET methods == SelectSeq(PreOrder, IsMethod)
            Under(key) == SelectSeq(methods, LAMBDA n : KeyOf(n) = key)
        IN  /\ visited = PreOrder
            /\ collected = methods
            /\ {mock_methods[k].key : k \in 1..Len(mock_methods)}
                   = {KeyOf(methods[i]) : i \in 1..Len(methods)}
            /\ \A j, k \in 1..Len(mock_methods) :
                   mock_methods[j].key = mock_methods[k].key => j = k
            /\ \A k \in 1..Len(mock_methods) :
                   LET under == Under(mock_methods[k].key)
                   IN  mock_methods[k].methods
                           = [i \in 1..Len(under) |->
                                  DescriptorOf(under[i], mock_methods[k].key)]

\* C12: after the walk every method node not beneath a pruned container has
\* produced exactly one descriptor, stored under the `::`-join of the
\* non-empty names of its container ancestors in root-to-leaf order; nodes of
\* other kinds are transparent, the children of a method node are never
\* visited, every reachable node is visited exactly once, and the descriptors
\* under one key are in depth-first pre-order.
C12_OneDescriptorUnderJoinedNames == WalkedWithKeys(JoinedNames)

\* The same with the key as line 465 builds it: the traversal part of C12
\* holds, and the key is the accumulator the code extends.
C12_OneDescriptorUnderAccumulator == WalkedWithKeys(QualifiedName)

(***************************************************************************)
(* Claims about StringTransform (checked under SpecIdent).                 *)
(***************************************************************************)
HasDelimiter(s) == \E k \in 1..Len(delimiters) : Contains(s, delimiters[k])

UsesExactlyOneDelimiter(s) ==
    Cardinality({k \in 1..Len(delimiters) : Contains(s, delimiters[k])}) = 1

\* One word written without any delimiter: non-empty, and no capital letter
\* after its first character starts a second word.
IsSingleWord(s) ==
    /\ s # <<>>
    /\ ~HasDelimiter(s)
    /\ \A i \in 2..Len(s) : LowerChar(s[i]) = s[i]

IsCleanList(list) ==
    /\ Len(list) >= 1
    /\ \A i \in 1..Len(list) : list[i] # <<>> /\ list[i] # Intf

\* C3: for an identifier that contains a delimiter, the list _string_parts
\* returns has at least one segment, no empty segment and no segment "intf".
C3_NoEmptyNoIntfSegment ==
    (st_pc # "new" /\ HasDelimiter(obtained_string))
        => (parts_result.err = "none" /\ IsCleanList(parts_result.val))

\* C4 as stated: _string_parts raises ValueError exactly when the identifier
\* has no delimiter and more than one word; a single word without delimiter
\* does not raise and yields a one-segment list.
C4_RaisesOnlyForMultiWord ==
    st_pc # "new" =>
        /\ (parts_result.err = "ValueError")
              <=> (~HasDelimiter(obtained_string) /\ ~IsSingleWord(obtained_string))
        /\ IsSingleWord(obtained_string)
              => (parts_result.err = "none" /\ Len(parts_result.val) = 1)

\* C4 as amended: _string_parts raises ValueError exactly when the identifier
\* contains none of the three delimiters, a single word included; when it
\* does not raise, the list has at least one segment.
C4_RaisesIffNoDelimiter ==
    st_pc # "new" =>
        /\ (parts_result.err = "ValueError") <=> ~HasDelimiter(obtained_string)
        /\ parts_result.err \in {"none", "ValueError"}
        /\ parts_result.err = "none" => Len(parts_result.val) >= 1

C4_SingleWordRaises ==
    /\ st_pc = "parts"
    /\ IsSingleWord(obtained_string)
    /\ parts_result.err = "ValueError"

\* C8 as stated: for an identifier that uses exactly one delimiter, building
\* a StringTransform from any joined view succeeds and its _string_parts is
\* the original's list.
C8_ViewsRoundTrip ==
    (st_pc = "round" /\ UsesExactlyOneDelimiter(obtained_string))
        => round_result = Ok(parts_result.val)

\* C8 as amended: for an identifier that uses exactly one delimiter, the
\* _string_parts of StringTransform(view) raises ValueError when the
\* original's list has one segment (the view then has no delimiter), and
\* otherwise is the original's list after one more removal pass; it is the
\* original's list itself when that has at least two segments, none of them
\* empty or "intf".
C8_ViewsRoundTripAmended ==
    (st_pc = "round" /\ UsesExactlyOneDelimiter(obtained_string)) =>
        /\ Len(parts_result.val) = 1 => round_result.err = "ValueError"
        /\ Len(parts_result.val) >= 2
              => round_result = Ok(RemoveLoop(parts_result.val, 1))
        /\ (Len(parts_result.val) >= 2 /\ IsCleanList(parts_result.val))
              => round_result = Ok(parts_result.val)

C8_OtherDelimiterRoundTrips ==
    /\ st_pc = "round"
    /\ UsesExactlyOneDelimiter(obtained_string)
    /\ ~Contains(obtained_string, delimiters[view_kind])
    /\ Len(parts_result.val) >= 2
    /\ IsCleanList(parts_result.val)
    /\ round_result = Ok(parts_result.val)

=============================================================================
